---- MODULE Spec2Model ----
(***************************************************************************)
(* Content alignment of two parallel documents (xzwyn/test_1).             *)
(*                                                                         *)
(* Numbers.  Scores are exact rationals kept as integer numerators:        *)
(*   semantic scores and thresholds in hundredths (ScoreDen),              *)
(*   blend weights in tenths (WeightDen),                                  *)
(*   a proximity entry of an n x m matrix as a numerator over n*m,         *)
(*   a blended entry as a numerator over WeightDen*ScoreDen*n*m.           *)
(* Indices are 1-based; a record refers to a unit by its index in the      *)
(* list it came from (the Python object reference), None for no unit.      *)
(*                                                                         *)
(* Texts.  In the document parser a text is a sequence of characters, each *)
(* a one-character string ("bullet" for U+2022); every segment of a file   *)
(* has a letter of its own, so the segments a unit was built from can be   *)
(* read off its text.                                                      *)
(*                                                                         *)
(* Specifications.  Spec: direct calls of align_content and align_tocs.    *)
(* SpecMain: the calls main.py makes.  SpecParser: process_document_json.  *)
(* SpecEmbeddings: _get_embeddings_in_batches.                             *)
(***************************************************************************)
EXTENDS Integers, Sequences, FiniteSets, TLC

(* ------------------------------ bounds --------------------------------- *)
\* Len(english_content) + Len(german_content) is at most MaxUnits.
MaxUnits == 4

\* _get_embeddings_in_batches is given at most MaxTexts texts.
MaxTexts == 34

\* A document has at most MaxSegments paragraphs and tables.
MaxSegments == 3

\* run_evaluation_pipeline is given at most MaxPairs records.
MaxPairs == 3

\* The values the inputs are drawn from.
Types == {"paragraph", "title"}
Pages == {1, 2}
GermanPages == {1}
SemValues == {40, 90}
Thresholds == {53, 70}

(* --------------------------- config.py --------------------------------- *)
ScoreDen == 100
WeightDen == 10
W_SEMANTIC == 7
W_TYPE == 2
W_PROXIMITY == 1
TYPE_MATCH_BONUS == 1
TYPE_MISMATCH_PENALTY == 0 - 1
DEFAULT_SIMILARITY_THRESHOLD == 70
\* toc_aligner.py: the literal of "if score > 0.4"
TOC_THRESHOLD == 40

\* semantic_aligner.py: the default batch_size, and the length of a
\* placeholder vector.
BATCH_SIZE == 16
EMBEDDING_DIMENSIONS == 3072

\* config.py: roles.  A text is a sequence of characters, "bullet" being
\* the character U+2022.
IGNORED_ROLES == {"pageHeader", "pageFooter", "pageNumber"}
STRUCTURAL_ROLES == {"title", "sectionHeading", "subheading"}

\* Python's None, and the 0.0 stored in a record without a partner.
None == 0
NO_SIMILARITY == 0

VARIABLES
    english_content,      \* list of units [type, page] given as document A
    german_content,       \* list of units [type, page] given as document B
    semantic_matrix,      \* cosine similarity of the embeddings of A and B
    SIMILARITY_THRESHOLD, \* config.SIMILARITY_THRESHOLD as last read
    credentials,          \* the Azure endpoint and key are set
    client,               \* semantic_aligner._client: "None" or "AzureOpenAI"
    instances,            \* history: how many AzureOpenAI objects were constructed
    type_matrix,          \* the matrices of the last align_content call
    proximity_matrix,
    blended_matrix,
    called,               \* the last call: "none", "align_content", "align_tocs"
    status,               \* how it ended: "idle", "returned" or "raised"
    returned,             \* the list it returned
    solver_ran,           \* it reached the matching step
    assignment            \* align_tocs: zip(row_indices, col_indices)

\* main.py
VARIABLES
    caller,               \* "none", "main" or "compare_alignment_methods"
    method_index,         \* compare_alignment_methods: the methods tried so far
    keywords,             \* the keyword arguments of its align_content call
    argument_error        \* the call ended with a TypeError at argument binding

\* json_parser.process_document_json
VARIABLES
    document,             \* the JSON file at filepath
    parser_pc,            \* "start", "stitching", "returned" or "raised"
    parser_error,         \* the exception raised and the key it names
    all_content,          \* the extracted segments, sorted by offset
    segment_index,        \* the segment the stitching loop is at (1-based)
    stitched_text,        \* the buffer
    current_page,
    current_type,
    final_content,        \* the units produced so far
    first_offsets         \* history: the offset of the first segment of each unit

\* semantic_aligner._get_embeddings_in_batches
VARIABLES
    texts,                \* the texts to embed, each known by its position
    batch_start,          \* the loop variable i: where the next batch starts (0-based)
    all_embeddings,       \* the vectors collected so far
    failed_batches,       \* history: the start of every batch that failed
    embeddings_pc         \* "start", "looping" or "returned"

\* pipeline.run_evaluation_pipeline
VARIABLES
    aligned_pairs,        \* the argument: the records of an alignment
    pair_index,           \* how many records the loop has finished
    findings,             \* the list "findings"
    finding,              \* the auditor's reply for the record at hand
    agent_calls,          \* history: the agent, record and reply of every call
    evaluation_pc         \* "idle", "loop", "agent2", "agent3", "returned", "raised"

align_vars == <<english_content, german_content, semantic_matrix,
                SIMILARITY_THRESHOLD, credentials, client, instances,
                type_matrix, proximity_matrix, blended_matrix,
                called, status, returned, solver_ran, assignment>>

main_vars == <<caller, method_index, keywords, argument_error>>

parser_vars == <<document, parser_pc, parser_error, all_content,
                 segment_index, stitched_text, current_page, current_type,
                 final_content, first_offsets>>

embedding_vars == <<texts, batch_start, all_embeddings, failed_batches,
                    embeddings_pc>>

evaluation_vars == <<aligned_pairs, pair_index, findings, finding,
                     agent_calls, evaluation_pc>>

vars == <<align_vars, main_vars, parser_vars, embedding_vars, evaluation_vars>>

(* ------------------------------ helpers -------------------------------- *)
Abs(x) == IF x < 0 THEN 0 - x ELSE x

Min(a, b) == IF a <= b THEN a ELSE b

\* Op(value), with value computed once.
Apply(Op(_), value) == CHOOSE r \in {Op(v) : v \in {value}} : TRUE

RECURSIVE SumSeq(_)
SumSeq(s) == IF s = <<>> THEN 0 ELSE Head(s) + SumSeq(Tail(s))

\* The value sets of the inputs.
EnglishUnits == [type : Types, page : Pages]

\* No function of the alignment reads the page of a German unit.
GermanUnits == [type : Types, page : GermanPages]

Lists(units, k) == UNION {[1..n -> units] : n \in 0..k}

Matrices(n, m) == [1..n -> [1..m -> SemValues]]

\* id(): distinct live objects have distinct addresses; the units of a list
\* were allocated at ascending or at descending addresses.
Addresses(n) == {[i \in 1..n |-> i], [i \in 1..n |-> n + 1 - i]}

(* -------------------- semantic_aligner.py: scoring --------------------- *)
_calculate_type_matrix(eng_content, ger_content) ==
    [i \in 1..Len(eng_content) |-> [j \in 1..Len(ger_content) |->
        IF eng_content[i].type = ger_content[j].type
        THEN TYPE_MATCH_BONUS
        ELSE TYPE_MISMATCH_PENALTY]]

\* Mutant of the proximity: positions are counted from 1.
_calculate_proximity_matrix_OneBased(num_eng, num_ger) ==
    [i \in 1..num_eng |-> [j \in 1..num_ger |->
        num_eng * num_ger - Abs(i * num_ger - j * num_eng)]]

\* 1.0 - abs(i/num_eng - j/num_ger) with 0-based i, j, times num_eng*num_ger.
_calculate_proximity_matrix(num_eng, num_ger) ==
    [i \in 1..num_eng |-> [j \in 1..num_ger |->
        LET norm_pos_eng == IF num_eng > 0 THEN (i - 1) * num_ger ELSE 0
            norm_pos_ger == IF num_ger > 0 THEN (j - 1) * num_eng ELSE 0
        IN  num_eng * num_ger - Abs(norm_pos_eng - norm_pos_ger)]]

\* Mutant of the blend: the proximity term is left out.
BlendedMatrix_WithoutProximity(semantic, types, proximity, num_eng, num_ger) ==
    [i \in 1..num_eng |-> [j \in 1..num_ger |->
          W_SEMANTIC * semantic[i][j] * num_eng * num_ger
        + W_TYPE * types[i][j] * ScoreDen * num_eng * num_ger]]

\* W_SEMANTIC*semantic + W_TYPE*type + W_PROXIMITY*proximity, times
\* WeightDen*ScoreDen*num_eng*num_ger.
BlendedMatrix(semantic, types, proximity, num_eng, num_ger) ==
    [i \in 1..num_eng |-> [j \in 1..num_ger |->
          W_SEMANTIC * semantic[i][j] * num_eng * num_ger
        + W_TYPE * types[i][j] * ScoreDen * num_eng * num_ger
        + W_PROXIMITY * proximity[i][j] * ScoreDen]]

\* Mutants of the threshold test: a strict comparison, and the comparison
\* turned round.
ScoreAtLeast_Strict(score, threshold, n, m) ==
    score > threshold * WeightDen * n * m

ScoreAtLeast_Inverted(score, threshold, n, m) ==
    score <= threshold * WeightDen * n * m

\* score >= threshold for a blended numerator of an n x m matrix.
ScoreAtLeast(score, threshold, n, m) == score >= threshold * WeightDen * n * m

(* ------------------- semantic_aligner.py: matching --------------------- *)
\* np.argmax over row[1..k]: the first index that holds the maximum.
ArgMax(row, k) ==
    CHOOSE j \in 1..k : /\ \A l \in 1..k : row[l] <= row[j]
                        /\ \A l \in 1..(j - 1) : row[l] < row[j]

\* np.argmax(blended, axis=1) and np.argmax(blended, axis=0)
BestGerMatches(blended, num_eng, num_ger) ==
    [i \in 1..num_eng |-> ArgMax(blended[i], num_ger)]

BestEngMatches(blended, num_eng, num_ger) ==
    [j \in 1..num_ger |->
        Apply(LAMBDA column : ArgMax(column, num_eng),
              [i \in 1..num_eng |-> blended[i][j]])]

\* Mutants of the matching loop: the test of best_eng_matches left out, and
\* the test of the threshold left out.
MutualBestMatches_RowBestOnly(blended, semantic, num_eng, num_ger, threshold) ==
    LET best_ger_matches == BestGerMatches(blended, num_eng, num_ger)
        candidate == [eng_idx \in 1..num_eng |->
            [english |-> eng_idx,
             german |-> best_ger_matches[eng_idx],
             similarity |-> semantic[eng_idx][best_ger_matches[eng_idx]]]]
        accepted(p) ==
            ScoreAtLeast(blended[p.english][p.german], threshold, num_eng, num_ger)
    IN  SelectSeq(candidate, accepted)

MutualBestMatches_NoThreshold(blended, semantic, num_eng, num_ger, threshold) ==
    LET best_ger_matches == BestGerMatches(blended, num_eng, num_ger)
        best_eng_matches == BestEngMatches(blended, num_eng, num_ger)
        candidate == [eng_idx \in 1..num_eng |->
            [english |-> eng_idx,
             german |-> best_ger_matches[eng_idx],
             similarity |-> semantic[eng_idx][best_ger_matches[eng_idx]]]]
        accepted(p) == best_eng_matches[p.german] = p.english
    IN  SelectSeq(candidate, accepted)

\* The loop over enumerate(best_ger_matches): the accepted pairs, in
\* ascending eng_idx.
MutualBestMatches(blended, semantic, num_eng, num_ger, threshold) ==
    LET candidate(best_ger_matches) == [eng_idx \in 1..num_eng |->
            [english |-> eng_idx,
             german |-> best_ger_matches[eng_idx],
             similarity |-> semantic[eng_idx][best_ger_matches[eng_idx]]]]
        loop(best_ger_matches, best_eng_matches) ==
            LET accepted(p) ==
                    /\ best_eng_matches[p.german] = p.english
                    /\ ScoreAtLeast(blended[p.english][p.german], threshold,
                                    num_eng, num_ger)
            IN  SelectSeq(candidate(best_ger_matches), accepted)
    IN  Apply(LAMBDA best_ger_matches :
            Apply(LAMBDA best_eng_matches :
                      loop(best_ger_matches, best_eng_matches),
                  BestEngMatches(blended, num_eng, num_ger)),
            BestGerMatches(blended, num_eng, num_ger))

\* Mutants of the source-only records: an item tested against the German
\* indices in use, and the items visited in the order of their addresses.
UnmatchedEnglish_ByGermanIndex(pairs, num_eng, ids) ==
    LET used_german_indices == {pairs[k].german : k \in 1..Len(pairs)}
        candidate == [i \in 1..num_eng |->
            [english |-> i, german |-> None, similarity |-> NO_SIMILARITY]]
        unmatched(p) == p.english \notin used_german_indices
    IN  SelectSeq(candidate, unmatched)

UnmatchedEnglish_InAddressOrder(pairs, num_eng, ids) ==
    LET matched_english_ids ==
            {ids[pairs[k].english] : k \in 1..Len(pairs)}
        candidate == [address \in 1..num_eng |->
            [english |-> CHOOSE i \in 1..num_eng : ids[i] = address,
             german |-> None, similarity |-> NO_SIMILARITY]]
        unmatched(p) == ids[p.english] \notin matched_english_ids
    IN  SelectSeq(candidate, unmatched)

\* The records without a German partner: every item whose id() is not the id
\* of a paired English item, in list order.
UnmatchedEnglish(pairs, num_eng, ids) ==
    LET matched_english_ids ==
            {ids[pairs[k].english] : k \in 1..Len(pairs)}
        candidate == [i \in 1..num_eng |->
            [english |-> i, german |-> None, similarity |-> NO_SIMILARITY]]
        unmatched(p) == ids[p.english] \notin matched_english_ids
    IN  SelectSeq(candidate, unmatched)

\* Mutant of the target-only records: 1.0 stored as the score.
UnmatchedGerman_WithScore(pairs, num_ger) ==
    LET used_german_indices == {pairs[k].german : k \in 1..Len(pairs)}
        candidate == [idx \in 1..num_ger |->
            [english |-> None, german |-> idx, similarity |-> ScoreDen]]
        unmatched(p) == p.german \notin used_german_indices
    IN  SelectSeq(candidate, unmatched)

\* The records without an English partner: every index not in
\* used_german_indices, in list order.
UnmatchedGerman(pairs, num_ger) ==
    LET used_german_indices == {pairs[k].german : k \in 1..Len(pairs)}
        candidate == [idx \in 1..num_ger |->
            [english |-> None, german |-> idx, similarity |-> NO_SIMILARITY]]
        unmatched(p) == p.german \notin used_german_indices
    IN  SelectSeq(candidate, unmatched)

\* Mutant of the sort key: 0 in place of float('inf').
SortKey_ZeroForNoSource(pair, eng_content) ==
    IF pair.english # None
    THEN <<0, eng_content[pair.english].page>>
    ELSE <<0, 0>>

\* The sort key: <<0, page>> for a record with an English unit, <<1, 0>> for
\* float('inf').
SortKey(pair, eng_content) ==
    IF pair.english # None
    THEN <<0, eng_content[pair.english].page>>
    ELSE <<1, 0>>

KeyLess(a, b) == a[1] < b[1] \/ (a[1] = b[1] /\ a[2] < b[2])

\* list.sort(key=...): a stable sort, as insertion of each record after the
\* records already placed whose key is not greater.
RECURSIVE InsertStable(_, _, _)
InsertStable(sorted, pair, eng_content) ==
    IF sorted = <<>> THEN <<pair>>
    ELSE IF KeyLess(SortKey(pair, eng_content), SortKey(Head(sorted), eng_content))
         THEN <<pair>> \o sorted
         ELSE <<Head(sorted)>> \o InsertStable(Tail(sorted), pair, eng_content)

RECURSIVE SortPairs(_, _)
SortPairs(pairs, eng_content) ==
    IF pairs = <<>> THEN <<>>
    ELSE InsertStable(SortPairs(SubSeq(pairs, 1, Len(pairs) - 1), eng_content),
                      pairs[Len(pairs)], eng_content)

\* Mutant of the guard: "and" in place of "or".
EmptyInput_BothEmpty(eng_content, ger_content) ==
    eng_content = <<>> /\ ger_content = <<>>

\* "if not english_content or not german_content: return []"
EmptyInput(eng_content, ger_content) ==
    eng_content = <<>> \/ ger_content = <<>>

\* align_content from line 118 on: the list it returns.
AlignedPairs(eng_content, ger_content, semantic, blended, threshold, ids) ==
    LET num_eng == Len(eng_content)
        num_ger == Len(ger_content)
        assemble(pairs) ==
            SortPairs(pairs \o UnmatchedEnglish(pairs, num_eng, ids)
                            \o UnmatchedGerman(pairs, num_ger),
                      eng_content)
    IN  Apply(assemble,
              MutualBestMatches(blended, semantic, num_eng, num_ger, threshold))

(* ---------------------------- toc_aligner.py --------------------------- *)
\* The one-to-one assignments of min(n, m) rows to columns, each as the list
\* zip(row_indices, col_indices) with row_indices ascending.
Assignments(n, m) ==
    IF n <= m
    THEN {[i \in 1..n |-> <<i, f[i]>>] :
             f \in {g \in [1..n -> 1..m] :
                       \A a, b \in 1..n : g[a] = g[b] => a = b}}
    ELSE {[k \in 1..m |-> <<rows[k], f[k]>>] :
             <<rows, f>> \in
                 {rf \in [1..m -> 1..n] \X [1..m -> 1..m] :
                     /\ \A a, b \in 1..m : a < b => rf[1][a] < rf[1][b]
                     /\ \A a, b \in 1..m : rf[2][a] = rf[2][b] => a = b}}

TotalCost(cost_matrix, zipped) ==
    SumSeq([k \in 1..Len(zipped) |-> cost_matrix[zipped[k][1]][zipped[k][2]]])

\* scipy.optimize.linear_sum_assignment(cost_matrix): the assignments of
\* minimum total cost; which of several minima is returned is not specified.
linear_sum_assignment(cost_matrix, n, m) ==
    LET all == Assignments(n, m)
        cost == [z \in all |-> TotalCost(cost_matrix, z)]
    IN  {z \in all : \A y \in all : cost[z] <= cost[y]}

\* "if score > 0.4"
TocKeeps(score, threshold) == score > threshold

\* The loop over zip(row_indices, col_indices): the sections kept.
AlignedSections(zipped, similarity_matrix, threshold) ==
    LET candidate == [k \in 1..Len(zipped) |->
            [english |-> zipped[k][1],
             german |-> zipped[k][2],
             similarity |-> similarity_matrix[zipped[k][1]][zipped[k][2]]]]
        kept(p) == TocKeeps(p.similarity, threshold)
    IN  SelectSeq(candidate, kept)

(* ----------------------------- actions --------------------------------- *)
\* The values of the variables of a component that has not been called.
NoDocument == [file |-> "missing"]

AlignIdle ==
    /\ english_content = <<>>
    /\ german_content = <<>>
    /\ semantic_matrix = <<>>
    /\ SIMILARITY_THRESHOLD = DEFAULT_SIMILARITY_THRESHOLD
    /\ credentials = FALSE
    /\ client = "None"
    /\ instances = 0
    /\ type_matrix = <<>>
    /\ proximity_matrix = <<>>
    /\ blended_matrix = <<>>
    /\ called = "none"
    /\ status = "idle"
    /\ returned = <<>>
    /\ solver_ran = FALSE
    /\ assignment = <<>>

MainIdle ==
    /\ caller = "none"
    /\ method_index = 0
    /\ keywords = <<>>
    /\ argument_error = FALSE

ParserIdle ==
    /\ document = NoDocument
    /\ parser_pc = "start"
    /\ parser_error = <<>>
    /\ all_content = <<>>
    /\ segment_index = 0
    /\ stitched_text = <<>>
    /\ current_page = 0
    /\ current_type = "paragraph"
    /\ final_content = <<>>
    /\ first_offsets = <<>>

EmbeddingIdle ==
    /\ texts = <<>>
    /\ batch_start = 0
    /\ all_embeddings = <<>>
    /\ failed_batches = {}
    /\ embeddings_pc = "start"

EvaluationIdle ==
    /\ aligned_pairs = <<>>
    /\ pair_index = 0
    /\ findings = <<>>
    /\ finding = "none"
    /\ agent_calls = <<>>
    /\ evaluation_pc = "idle"

Init ==
    /\ english_content \in Lists(EnglishUnits, MaxUnits)
    /\ german_content \in Lists(GermanUnits, MaxUnits - Len(english_content))
    /\ semantic_matrix \in Matrices(Len(english_content), Len(german_content))
    /\ SIMILARITY_THRESHOLD = DEFAULT_SIMILARITY_THRESHOLD
    /\ credentials \in BOOLEAN
    /\ client = "None"
    /\ instances = 0
    /\ type_matrix = <<>>
    /\ proximity_matrix = <<>>
    /\ blended_matrix = <<>>
    /\ called = "none"
    /\ status = "idle"
    /\ returned = <<>>
    /\ solver_ran = FALSE
    /\ assignment = <<>>
    /\ MainIdle
    /\ ParserIdle
    /\ EmbeddingIdle
    /\ EvaluationIdle

\* Mutant of the argument lists after the call: the call consumed them.
UnitsAfterCall_Consumed(content) == <<>>

\* align_content only reads english_content and german_content: it builds
\* new lists from them and sorts the list of records it created.
UnitsAfterCall(content) == content

\* Mutant of the client: a new AzureOpenAI object for every call.
_get_azure_client_NoCache(cached, configured) ==
    IF ~configured /\ cached = "None"
    THEN [raised |-> TRUE, client |-> cached, constructed |-> 0]
    ELSE [raised |-> FALSE, client |-> "AzureOpenAI", constructed |-> 1]

\* _get_azure_client() with _client = cached: the cached object if there is
\* one; otherwise a new object, kept in _client, when the endpoint and the
\* key are configured, and an error that leaves _client as it is when not.
_get_azure_client(cached, configured) ==
    IF cached # "None"
    THEN [raised |-> FALSE, client |-> cached, constructed |-> 0]
    ELSE IF ~configured
    THEN [raised |-> TRUE, client |-> cached, constructed |-> 0]
    ELSE [raised |-> FALSE, client |-> "AzureOpenAI", constructed |-> 1]

\* The body of align_content(english_content, german_content), run while
\* the configuration holds threshold t; the threshold is read at the matching.
align_content ==
    \E t \in Thresholds :
        /\ called' = "align_content"
        /\ assignment' = <<>>
        /\ IF EmptyInput(english_content, german_content)
           THEN /\ returned' = <<>>
                /\ status' = "returned"
                /\ solver_ran' = FALSE
                /\ type_matrix' = <<>>
                /\ proximity_matrix' = <<>>
                /\ blended_matrix' = <<>>
                /\ UNCHANGED <<client, instances, SIMILARITY_THRESHOLD>>
           ELSE IF _get_azure_client(client, credentials).raised
           THEN \* _get_azure_client raises; nothing is cached
                /\ returned' = <<>>
                /\ status' = "raised"
                /\ solver_ran' = FALSE
                /\ type_matrix' = <<>>
                /\ proximity_matrix' = <<>>
                /\ blended_matrix' = <<>>
                /\ client' = _get_azure_client(client, credentials).client
                /\ UNCHANGED <<instances, SIMILARITY_THRESHOLD>>
           ELSE LET num_eng == Len(english_content)
                    num_ger == Len(german_content)
                IN  /\ client' = _get_azure_client(client, credentials).client
                    /\ instances' = instances
                           + _get_azure_client(client, credentials).constructed
                    /\ type_matrix' =
                           _calculate_type_matrix(english_content, german_content)
                    /\ proximity_matrix' =
                           _calculate_proximity_matrix(num_eng, num_ger)
                    /\ blended_matrix' =
                           BlendedMatrix(semantic_matrix, type_matrix',
                                         proximity_matrix', num_eng, num_ger)
                    /\ solver_ran' = TRUE
                    /\ IF num_eng = 0 \/ num_ger = 0
                       THEN \* np.argmax over an empty axis raises ValueError
                            /\ returned' = <<>>
                            /\ status' = "raised"
                            /\ UNCHANGED SIMILARITY_THRESHOLD
                       ELSE /\ \E ids \in Addresses(num_eng) :
                                  returned' =
                                      AlignedPairs(english_content, german_content,
                                                   semantic_matrix, blended_matrix',
                                                   t, ids)
                            /\ status' = "returned"
                            /\ SIMILARITY_THRESHOLD' = t
        /\ english_content' = UnitsAfterCall(english_content)
        /\ german_content' = UnitsAfterCall(german_content)
        /\ UNCHANGED <<semantic_matrix, credentials>>

\* A call align_content(english_content, german_content) with the two lists
\* as its only arguments.
AlignContent ==
    /\ align_content
    /\ UNCHANGED <<main_vars, parser_vars, embedding_vars, evaluation_vars>>

\* align_tocs(english_toc, german_toc), given the same two lists and the
\* similarity of their embeddings.
AlignTocs ==
    /\ called' = "align_tocs"
    /\ IF EmptyInput(english_content, german_content)
       THEN /\ returned' = <<>>
            /\ status' = "returned"
            /\ assignment' = <<>>
            /\ solver_ran' = FALSE
       ELSE IF ~credentials
       THEN \* get_embeddings raises: the embedding client is not configured
            /\ returned' = <<>>
            /\ status' = "raised"
            /\ assignment' = <<>>
            /\ solver_ran' = FALSE
       ELSE LET num_eng == Len(english_content)
                num_ger == Len(german_content)
                similarity_matrix == semantic_matrix
                cost_matrix == [i \in 1..num_eng |-> [j \in 1..num_ger |->
                                    0 - similarity_matrix[i][j]]]
            IN  \E zipped \in linear_sum_assignment(cost_matrix, num_eng, num_ger) :
                    /\ assignment' = zipped
                    /\ returned' = AlignedSections(zipped, similarity_matrix,
                                                   TOC_THRESHOLD)
                    /\ status' = "returned"
                    /\ solver_ran' = TRUE
    /\ UNCHANGED <<english_content, german_content, semantic_matrix,
                   SIMILARITY_THRESHOLD, credentials, client, instances,
                   type_matrix, proximity_matrix, blended_matrix>>
    /\ UNCHANGED <<main_vars, parser_vars, embedding_vars, evaluation_vars>>

Next ==
    \/ AlignContent
    \/ AlignTocs

Spec == Init /\ [][Next]_vars

(* --------- semantic_aligner.py: the score matrices on their own -------- *)
\* The roles a unit can have, and units of every role.
ScoringTypes == {"paragraph", "footnote", "title", "sectionHeading", "table"}
ScoringUnits == [type : ScoringTypes, page : {1}]

InitScoring ==
    /\ english_content \in Lists(ScoringUnits, MaxUnits)
    /\ german_content \in Lists(ScoringUnits, MaxUnits - Len(english_content))
    /\ semantic_matrix = <<>>
    /\ SIMILARITY_THRESHOLD = DEFAULT_SIMILARITY_THRESHOLD
    /\ credentials = FALSE
    /\ client = "None"
    /\ instances = 0
    /\ type_matrix = <<>>
    /\ proximity_matrix = <<>>
    /\ blended_matrix = <<>>
    /\ called = "none"
    /\ status = "idle"
    /\ returned = <<>>
    /\ solver_ran = FALSE
    /\ assignment = <<>>
    /\ MainIdle
    /\ ParserIdle
    /\ EmbeddingIdle
    /\ EvaluationIdle

\* type_matrix = _calculate_type_matrix(english_content, german_content)
CalculateTypeMatrix ==
    /\ called' = "_calculate_type_matrix"
    /\ status' = "returned"
    /\ type_matrix' = _calculate_type_matrix(english_content, german_content)
    /\ UNCHANGED <<english_content, german_content, semantic_matrix,
                   SIMILARITY_THRESHOLD, credentials, client, instances,
                   proximity_matrix, blended_matrix, returned, solver_ran,
                   assignment>>
    /\ UNCHANGED <<main_vars, parser_vars, embedding_vars, evaluation_vars>>

\* proximity_matrix = _calculate_proximity_matrix(num_eng, num_ger)
CalculateProximityMatrix ==
    /\ called' = "_calculate_proximity_matrix"
    /\ status' = "returned"
    /\ proximity_matrix' =
           _calculate_proximity_matrix(Len(english_content), Len(german_content))
    /\ UNCHANGED <<english_content, german_content, semantic_matrix,
                   SIMILARITY_THRESHOLD, credentials, client, instances,
                   type_matrix, blended_matrix, returned, solver_ran,
                   assignment>>
    /\ UNCHANGED <<main_vars, parser_vars, embedding_vars, evaluation_vars>>

NextScoring ==
    \/ CalculateTypeMatrix
    \/ CalculateProximityMatrix

SpecScoring == InitScoring /\ [][NextScoring]_vars

(* -------- semantic_aligner.py: the calls of one process, _client ------- *)
\* The arguments of a call: at most one unit on each side.
CallArguments ==
    UNION { [english_content : {e}, german_content : {g},
             semantic_matrix : Matrices(Len(e), Len(g))] :
            e \in Lists(EnglishUnits, 1), g \in Lists(GermanUnits, 1) }

InitClient ==
    /\ \E arguments \in CallArguments :
           /\ english_content = arguments.english_content
           /\ german_content = arguments.german_content
           /\ semantic_matrix = arguments.semantic_matrix
    /\ SIMILARITY_THRESHOLD = DEFAULT_SIMILARITY_THRESHOLD
    /\ credentials \in BOOLEAN
    /\ client = "None"
    /\ instances = 0
    /\ type_matrix = <<>>
    /\ proximity_matrix = <<>>
    /\ blended_matrix = <<>>
    /\ called = "none"
    /\ status = "idle"
    /\ returned = <<>>
    /\ solver_ran = FALSE
    /\ assignment = <<>>
    /\ MainIdle
    /\ ParserIdle
    /\ EmbeddingIdle
    /\ EvaluationIdle

\* Between two calls the configuration gets or loses the endpoint and key.
SetCredentials ==
    /\ credentials' = ~credentials
    /\ UNCHANGED <<english_content, german_content, semantic_matrix,
                   SIMILARITY_THRESHOLD, client, instances,
                   type_matrix, proximity_matrix, blended_matrix,
                   called, status, returned, solver_ran, assignment>>
    /\ UNCHANGED <<main_vars, parser_vars, embedding_vars, evaluation_vars>>

\* The process prepares the arguments of its next call.
NewDocuments ==
    /\ \E arguments \in CallArguments :
           /\ english_content' = arguments.english_content
           /\ german_content' = arguments.german_content
           /\ semantic_matrix' = arguments.semantic_matrix
    /\ UNCHANGED <<SIMILARITY_THRESHOLD, credentials, client, instances,
                   type_matrix, proximity_matrix, blended_matrix,
                   called, status, returned, solver_ran, assignment>>
    /\ UNCHANGED <<main_vars, parser_vars, embedding_vars, evaluation_vars>>

NextClient ==
    \/ AlignContent
    \/ SetCredentials
    \/ NewDocuments

SpecClient == InitClient /\ [][NextClient]_vars

(* ------------- pipeline.py: run_evaluation_pipeline -------------------- *)
\* A record names its units by their position k >= 1, None standing for
\* no unit; every unit has a text of its own.
EnglishElement(k) == [text |-> <<"english", k>>, page |-> k]
GermanElement(k) == [text |-> <<"german", k>>, page |-> k]

\* The text "---" of a finding for the side that has no unit.
NoText == <<"---">>

\* The records align_content builds: a matched pair, an English unit with
\* german None, a German unit with english None.
RecordKinds == {"matched", "english_only", "german_only"}

Record(kind, k) ==
    [english |-> IF kind = "german_only" THEN None ELSE k,
     german |-> IF kind = "english_only" THEN None ELSE k]

\* align_content sorts its records by the page of the English unit and
\* puts the records without one last.
SortedKinds(kinds) ==
    \A a \in 1..Len(kinds) : \A b \in 1..Len(kinds) :
        (a < b /\ kinds[a] = "german_only") => kinds[b] = "german_only"

AlignedPairLists ==
    { [k \in 1..Len(kinds) |-> Record(kinds[k], k)] :
        kinds \in { q \in Lists(RecordKinds, MaxPairs) : SortedKinds(q) } }

\* str.lower() on the replies of the agents.
Lower(reply) ==
    CASE reply \in {"Confirm", "CONFIRM", "confirm"} -> "confirm"
      [] reply \in {"Reject", "reject"} -> "reject"
      [] reply \in {"No", "NO", "no"} -> "no"
      [] reply \in {"Yes", "yes"} -> "yes"
      [] reply = "Error" -> "error"
      [] OTHER -> reply

\* What the auditor's service can answer: a JSON object with an error
\* type, or none because the request raised.  (A JSON object without
\* error_type and a reply without JSON end like "None" and "exception".)
AuditorReplies == {"Mistranslation", "Omission", "None", "exception"}

\* evaluate_translation_pair followed by finding.get("error_type", "None")
ErrorTypeOf(reply) ==
    CASE reply \in {"no JSON", "exception"} -> "System Error"
      [] reply = "no error_type" -> "None"
      [] OTHER -> reply

\* What the reviewer's service can answer: a JSON object with a verdict,
\* a reply that is no JSON, or none because the request raised.
ReviewerReplies == {"Confirm", "Reject", "no JSON", "exception"}

\* Mutant of the reviewer: a reply that cannot be read confirms.
_agent2_validate_finding_ConfirmsOnError(reply) ==
    IF reply \in {"no JSON", "exception"}
    THEN TRUE
    ELSE Lower(IF reply = "no verdict" THEN "" ELSE reply) = "confirm"

\* _agent2_validate_finding: is_confirmed
_agent2_validate_finding(reply) ==
    IF reply \in {"no JSON", "exception"}
    THEN FALSE
    ELSE Lower(IF reply = "no verdict" THEN "" ELSE reply) = "confirm"

\* What the context service can answer: a JSON object with context_match
\* as a string or as another JSON value, or none because the request raised.
ContextReplies == {"Yes", "No", "not a string", "exception"}

\* check_context_mismatch followed by .get('context_match', 'Error')
ContextMatchOf(reply) ==
    IF reply \in {"no JSON", "exception", "no context_match"}
    THEN "Error"
    ELSE reply

\* Mutant of case 3: every record with an English unit is audited.
Matched_EnglishPresent(pair) == pair.english # None

\* eng_elem and ger_elem
Matched(pair) == pair.english # None /\ pair.german # None

\* eng_elem and not ger_elem, or not eng_elem and ger_elem
Unmatched(pair) ==
    \/ pair.english # None /\ pair.german = None
    \/ pair.english = None /\ pair.german # None

Omission(pair) ==
    [type |-> "Omission", english_text |-> EnglishElement(pair.english).text,
     german_text |-> NoText, page |-> EnglishElement(pair.english).page]

Addition(pair) ==
    [type |-> "Addition", english_text |-> NoText,
     german_text |-> GermanElement(pair.german).text,
     page |-> GermanElement(pair.german).page]

TranslationFinding(error_type, pair) ==
    [type |-> error_type, english_text |-> EnglishElement(pair.english).text,
     german_text |-> GermanElement(pair.german).text,
     page |-> EnglishElement(pair.english).page]

InitEvaluation ==
    /\ aligned_pairs \in AlignedPairLists
    /\ pair_index = 0
    /\ findings = <<>>
    /\ finding = "none"
    /\ agent_calls = <<>>
    /\ evaluation_pc = "loop"
    /\ AlignIdle
    /\ MainIdle
    /\ ParserIdle
    /\ EmbeddingIdle

\* Cases 1 and 2 of the loop: an unmatched record.
ReportUnmatched ==
    /\ evaluation_pc = "loop"
    /\ pair_index < Len(aligned_pairs)
    /\ LET pair == aligned_pairs[pair_index + 1]
       IN  /\ Unmatched(pair)
           /\ findings' = Append(findings,
                                 IF pair.german = None THEN Omission(pair)
                                                       ELSE Addition(pair))
    /\ pair_index' = pair_index + 1
    /\ UNCHANGED <<aligned_pairs, finding, agent_calls, evaluation_pc>>
    /\ UNCHANGED <<align_vars, main_vars, parser_vars, embedding_vars>>

\* Case 3, agent 1: finding = evaluate_translation_pair(eng_text, ger_text)
Agent1 ==
    /\ evaluation_pc = "loop"
    /\ pair_index < Len(aligned_pairs)
    /\ Matched(aligned_pairs[pair_index + 1])
    /\ \E reply \in AuditorReplies :
         /\ agent_calls' = Append(agent_calls, [agent |-> "agent1",
                                                pair |-> pair_index + 1,
                                                reply |-> reply])
         /\ LET error_type == ErrorTypeOf(reply)
           IN  IF error_type \notin {"None", "System Error"}
               THEN /\ finding' = error_type
                    /\ evaluation_pc' = "agent2"
                    /\ UNCHANGED pair_index
               ELSE /\ finding' = "none"
                    /\ pair_index' = pair_index + 1
                    /\ UNCHANGED evaluation_pc
    /\ UNCHANGED <<aligned_pairs, findings>>
    /\ UNCHANGED <<align_vars, main_vars, parser_vars, embedding_vars>>

\* Agent 2: is_confirmed, reasoning, _ = _agent2_validate_finding(...)
Agent2 ==
    /\ evaluation_pc = "agent2"
    /\ \E reply \in ReviewerReplies :
         /\ agent_calls' = Append(agent_calls, [agent |-> "agent2",
                                                pair |-> pair_index + 1,
                                                reply |-> reply])
         /\ IF _agent2_validate_finding(reply)
           THEN /\ findings' =
                       Append(findings,
                              TranslationFinding(finding,
                                                 aligned_pairs[pair_index + 1]))
                /\ finding' = "none"
                /\ pair_index' = pair_index + 1
                /\ evaluation_pc' = "loop"
           ELSE /\ evaluation_pc' = "agent3"
                /\ UNCHANGED <<findings, finding, pair_index>>
    /\ UNCHANGED aligned_pairs
    /\ UNCHANGED <<align_vars, main_vars, parser_vars, embedding_vars>>

\* Agent 3: context_result = check_context_mismatch(eng_text, ger_text);
\* .lower() on a verdict that is no string raises AttributeError.
Agent3 ==
    /\ evaluation_pc = "agent3"
    /\ \E reply \in ContextReplies :
         /\ agent_calls' = Append(agent_calls, [agent |-> "agent3",
                                                pair |-> pair_index + 1,
                                                reply |-> reply])
         /\ LET context_match_verdict == ContextMatchOf(reply)
           IN  IF context_match_verdict = "not a string"
               THEN /\ evaluation_pc' = "raised"
                    /\ UNCHANGED <<findings, finding, pair_index>>
               ELSE /\ findings' =
                           IF Lower(context_match_verdict) = "no"
                           THEN Append(findings,
                                       TranslationFinding(
                                           "Context Mismatch",
                                           aligned_pairs[pair_index + 1]))
                           ELSE findings
                    /\ finding' = "none"
                    /\ pair_index' = pair_index + 1
                    /\ evaluation_pc' = "loop"
    /\ UNCHANGED aligned_pairs
    /\ UNCHANGED <<align_vars, main_vars, parser_vars, embedding_vars>>

\* return findings
ReturnFindings ==
    /\ evaluation_pc = "loop"
    /\ pair_index = Len(aligned_pairs)
    /\ evaluation_pc' = "returned"
    /\ UNCHANGED <<aligned_pairs, pair_index, findings, finding, agent_calls>>
    /\ UNCHANGED <<align_vars, main_vars, parser_vars, embedding_vars>>

NextEvaluation ==
    \/ ReportUnmatched
    \/ Agent1
    \/ Agent2
    \/ Agent3
    \/ ReturnFindings

SpecEvaluation == InitEvaluation /\ [][NextEvaluation]_vars

(* ------------------------------ main.py -------------------------------- *)
\* The parameters of align_content.
Parameters == {"english_content", "german_content",
               "generate_debug_report", "debug_report_path"}

\* argparse: --algorithm and --context-window.
Algorithms == {"mutual", "hungarian"}
ContextWindows == {0, 1}

\* compare_alignment_methods: the list "methods".
methods == << [name |-> "mutual", context |-> 0],
             [name |-> "hungarian", context |-> 0],
             [name |-> "mutual", context |-> 1],
             [name |-> "hungarian", context |-> 1] >>

\* Python binds the arguments before the body of the function runs; a
\* keyword argument that names no parameter raises TypeError.
Binds(kwargs) == DOMAIN kwargs \subseteq Parameters

\* align_content(english_content, german_content, **kwargs)
CallAlignContent(kwargs) ==
    /\ keywords' = kwargs
    /\ IF Binds(kwargs)
       THEN /\ align_content
            /\ argument_error' = FALSE
       ELSE /\ argument_error' = TRUE
            /\ called' = "align_content"
            /\ status' = "raised"
            /\ returned' = <<>>
            /\ solver_ran' = FALSE
            /\ assignment' = <<>>
            /\ type_matrix' = <<>>
            /\ proximity_matrix' = <<>>
            /\ blended_matrix' = <<>>
            /\ UNCHANGED <<english_content, german_content, semantic_matrix,
                           SIMILARITY_THRESHOLD, credentials, client, instances>>
    /\ UNCHANGED <<parser_vars, embedding_vars, evaluation_vars>>

\* main without --compare-methods: step 3/5; the call is in no try block.
Main ==
    /\ caller = "none"
    /\ caller' = "main"
    /\ UNCHANGED method_index
    /\ \E algorithm \in Algorithms, context_window \in ContextWindows :
           CallAlignContent([algorithm |-> algorithm,
                             context_window |-> context_window,
                             generate_debug_report |-> FALSE,
                             debug_report_path |-> "None"])

\* main with --compare-methods: one iteration of the loop over methods; an
\* exception of the call ends the loop and the program.
CompareAlignmentMethods ==
    /\ caller \in {"none", "compare_alignment_methods"}
    /\ ~(caller = "compare_alignment_methods" /\ status = "raised")
    /\ method_index < Len(methods)
    /\ caller' = "compare_alignment_methods"
    /\ method_index' = method_index + 1
    /\ LET method == methods[method_index + 1]
       IN  CallAlignContent([algorithm |-> method.name,
                             context_window |-> method.context])

NextMain ==
    \/ Main
    \/ CompareAlignmentMethods

SpecMain == Init /\ [][NextMain]_vars

(* ----------- semantic_aligner.py: _get_embeddings_in_batches ----------- *)
\* A text is known by its position in the list the caller passes.
TextLists == {[k \in 1..n |-> k] : n \in 0..MaxTexts}

\* item.embedding of the response item for a text, and [0.0] * 3072.
ServiceEmbedding(text) == [values |-> "embedding", of |-> text]
ZeroEmbedding == [values |-> "zeros", of |-> EMBEDDING_DIMENSIONS]

\* texts[i:i + batch_size], with i 0-based.
Batch(all_texts, i) ==
    SubSeq(all_texts, i + 1, Min(i + BATCH_SIZE, Len(all_texts)))

\* [item.embedding for item in response.data]: one item per input, in order.
BatchEmbeddings(batch) == [k \in 1..Len(batch) |-> ServiceEmbedding(batch[k])]

\* Mutant of the placeholders: one placeholder for the whole batch.
Placeholders_OnePerBatch(batch) == <<ZeroEmbedding>>

\* [[0.0] * 3072] * len(batch)
Placeholders(batch) == [k \in 1..Len(batch) |-> ZeroEmbedding]

InitEmbeddings ==
    /\ AlignIdle
    /\ MainIdle
    /\ ParserIdle
    /\ EvaluationIdle
    /\ texts \in TextLists
    /\ batch_start = 0
    /\ all_embeddings = <<>>
    /\ failed_batches = {}
    /\ embeddings_pc = "start"

\* One iteration of the loop over range(0, len(texts), batch_size): the
\* request of the batch succeeds, or raises and the except clause runs.
EmbedBatch ==
    /\ embeddings_pc \in {"start", "looping"}
    /\ batch_start < Len(texts)
    /\ embeddings_pc' = "looping"
    /\ LET batch == Batch(texts, batch_start)
       IN  \E request_failed \in BOOLEAN :
               IF request_failed
               THEN /\ all_embeddings' = all_embeddings \o Placeholders(batch)
                    /\ failed_batches' = failed_batches \cup {batch_start}
               ELSE /\ all_embeddings' = all_embeddings \o BatchEmbeddings(batch)
                    /\ UNCHANGED failed_batches
    /\ batch_start' = batch_start + BATCH_SIZE
    /\ UNCHANGED <<texts, align_vars, main_vars, parser_vars,
                   evaluation_vars>>

\* return np.array(all_embeddings)
ReturnEmbeddings ==
    /\ embeddings_pc \in {"start", "looping"}
    /\ batch_start >= Len(texts)
    /\ embeddings_pc' = "returned"
    /\ UNCHANGED <<texts, batch_start, all_embeddings, failed_batches,
                   align_vars, main_vars, parser_vars, evaluation_vars>>

NextEmbeddings ==
    \/ EmbedBatch
    \/ ReturnEmbeddings

SpecEmbeddings == InitEmbeddings /\ [][NextEmbeddings]_vars

(* --------------- json_parser.py: process_document_json ----------------- *)
\* str.strip(): whitespace is removed from both ends.
Whitespace == {" "}

RECURSIVE LStrip(_)
LStrip(text) ==
    IF text # <<>> /\ Head(text) \in Whitespace
    THEN LStrip(Tail(text))
    ELSE text

RECURSIVE RStrip(_)
RStrip(text) ==
    IF text # <<>> /\ text[Len(text)] \in Whitespace
    THEN RStrip(SubSeq(text, 1, Len(text) - 1))
    ELSE text

Strip(text) == RStrip(LStrip(text))

\* The inputs.  A span starts at one of Offsets; the text it selects from
\* the document's content has one of four forms around a letter of its own.
Offsets == {0, 1, 2}
Letters == <<"a", "b", "c", "d", "e", "f">>
TableLetters == <<"T", "U", "V", "W", "X", "Y">>

RawText(form, letter) ==
    CASE form = "blank" -> <<" ">>
      [] form = "word"  -> <<" ", letter>>
      [] form = "stop"  -> <<letter, ".", " ">>
      [] form = "colon" -> <<letter, ":">>

\* A paragraph of the file: its role ("absent" without the key), its spans
\* ("missing" without the key, "no_offset" when the first span has no
\* 'offset'), the offset of its first span and the text that span selects.
ParagraphShapes ==
    {[role |-> "pageHeader", spans |-> "ok", offset |-> 0, form |-> "word"]}
    \cup [role : {"absent"}, spans : {"missing", "no_offset"},
          offset : {0}, form : {"word"}]
    \cup [role : {"absent"}, spans : {"ok"}, offset : Offsets,
          form : {"blank", "word", "stop", "colon"}]
    \cup [role : {"title", "footnote"}, spans : {"ok"}, offset : Offsets,
          form : {"word"}]

Paragraph(shape, k) ==
    [role |-> shape.role, spans |-> shape.spans, offset |-> shape.offset,
     content |-> RawText(shape.form, Letters[k])]

\* A table of the file: its spans, the offset and length of its first span,
\* and the Markdown _convert_table_to_markdown renders for it.
TableShapes ==
    {[spans |-> "missing", offset |-> 0, rendering |-> "empty"]}
    \cup [spans : {"ok"}, offset : Offsets, rendering : {"empty", "table"}]

Table(shape, k) ==
    [spans |-> shape.spans, offset |-> shape.offset, length |-> 1,
     markdown |-> IF shape.rendering = "empty" THEN <<>>
                  ELSE <<TableLetters[k]>>]

\* The pages and the styles of the file: page_lookup, the page of an offset
\* (0 for an offset no page span covers), and the handwritten offsets.
Layouts ==
    {[page_lookup |-> [o \in Offsets |-> IF o < 2 THEN 1 ELSE 2],
      handwritten_offsets |-> {}],
     [page_lookup |-> [o \in Offsets |-> 2 - o],
      handwritten_offsets |-> {2}]}

ParagraphLists(n) ==
    {[k \in 1..n |-> Paragraph(shapes[k], k)] : shapes \in [1..n -> ParagraphShapes]}

TableLists(n) ==
    {[k \in 1..n |-> Table(shapes[k], k)] : shapes \in [1..n -> TableShapes]}

\* The files whose keys are all there, with n paragraphs and m tables.
DocumentsOf(n, m) ==
    UNION {[file : {"ok"}, missing_key : {"none"},
            paragraphs : ParagraphLists(n), tables : TableLists(m),
            page_lookup : {layout.page_lookup},
            handwritten_offsets : {layout.handwritten_offsets}]
           : layout \in Layouts}

Documents ==
    {NoDocument}
    \cup {[file |-> "ok", missing_key |-> key, paragraphs |-> <<>>,
           tables |-> <<>>, page_lookup |-> [o \in Offsets |-> 0],
           handwritten_offsets |-> {}] : key \in {"analyzeResult", "content"}}
    \cup UNION {UNION {DocumentsOf(n, m) : m \in 0..(MaxSegments - n)}
                : n \in 0..MaxSegments}

\* The value of 'offset' in a unit that has no such key.
AbsentKey == 0 - 1

\* Step 1: the offsets inside the span of a table.
TableOffsets(raw_tables) ==
    UNION {raw_tables[k].offset .. (raw_tables[k].offset + raw_tables[k].length - 1)
           : k \in {l \in 1..Len(raw_tables) : raw_tables[l].spans = "ok"}}

\* p.get('role', 'paragraph')
RoleOf(p) == IF p.role = "absent" THEN "paragraph" ELSE p.role

\* Mutant of the role filter: no role is ignored.
Ignored_NoRole(role) == FALSE

Ignored(role) == role \in IGNORED_ROLES

\* Mutant of the skip: only a paragraph without spans is skipped.
Skipped_MissingSpansOnly(p) == p.spans = "missing"

\* "if role in config.IGNORED_ROLES or not p.get('spans'): continue"
Skipped(p) == Ignored(RoleOf(p)) \/ p.spans = "missing"

\* p['spans'][0]['offset'] raises KeyError for the first paragraph that is
\* not skipped and whose span has no 'offset'.
OffsetKeyError(raw_paragraphs) ==
    \E k \in 1..Len(raw_paragraphs) :
        ~Skipped(raw_paragraphs[k]) /\ raw_paragraphs[k].spans = "no_offset"

\* Mutant of the paragraph filter: a paragraph inside a table is kept.
KeptParagraph_InsideTables(p, table_offsets, handwritten_offsets) ==
    /\ ~Skipped(p)
    /\ p.offset \notin handwritten_offsets
    /\ Strip(p.content) # <<>>

\* The paragraphs that are appended to all_content.
KeptParagraph(p, table_offsets, handwritten_offsets) ==
    /\ ~Skipped(p)
    /\ p.offset \notin table_offsets
    /\ p.offset \notin handwritten_offsets
    /\ Strip(p.content) # <<>>

ParagraphSegment(p, page_lookup) ==
    [text |-> Strip(p.content), type |-> RoleOf(p),
     page |-> page_lookup[p.offset], offset |-> p.offset]

KeptTable(table) == table.spans = "ok" /\ table.markdown # <<>>

TableSegment(table, page_lookup) ==
    [text |-> table.markdown, type |-> "table",
     page |-> page_lookup[table.offset], offset |-> table.offset]

\* Step 2 before the sort: the kept paragraphs, then the kept tables.
Extracted(raw_paragraphs, raw_tables, page_lookup, handwritten_offsets) ==
    LET table_offsets == TableOffsets(raw_tables)
        kept(p) == KeptParagraph(p, table_offsets, handwritten_offsets)
        kept_paragraphs == SelectSeq(raw_paragraphs, kept)
        kept_tables == SelectSeq(raw_tables, KeptTable)
    IN  [k \in 1..Len(kept_paragraphs) |->
            ParagraphSegment(kept_paragraphs[k], page_lookup)]
        \o [k \in 1..Len(kept_tables) |->
            TableSegment(kept_tables[k], page_lookup)]

\* list.sort(key=lambda x: x['offset']): stable.
RECURSIVE InsertByOffset(_, _)
InsertByOffset(sorted, segment) ==
    IF sorted = <<>> THEN <<segment>>
    ELSE IF sorted[Len(sorted)].offset <= segment.offset
         THEN Append(sorted, segment)
         ELSE Append(InsertByOffset(SubSeq(sorted, 1, Len(sorted) - 1), segment),
                     sorted[Len(sorted)])

\* Mutant of the sort: the content stays in the order it was extracted.
SortByOffset_ExtractionOrder(content) == content

RECURSIVE SortByOffset(_)
SortByOffset(content) ==
    IF content = <<>> THEN <<>>
    ELSE InsertByOffset(SortByOffset(SubSeq(content, 1, Len(content) - 1)),
                        content[Len(content)])

(* Step 3: stitching.  The locals of the loop as one record. *)
InitialBuffer ==
    [final_content |-> <<>>, first_offsets |-> <<>>, stitched_text |-> <<>>,
     current_page |-> 0, current_type |-> "paragraph"]

\* Mutant of the standalone test: a table is not standalone.
IsStandalone_StructuralOnly(segment) == segment.type \in STRUCTURAL_ROLES

IsStandalone(segment) ==
    segment.type \in STRUCTURAL_ROLES \/ segment.type = "table"

\* Mutant of the marker test: only the full stop ends a paragraph.
EndsWithMarker_FullStopOnly(text) == text # <<>> /\ text[Len(text)] = "."

\* stitched_text.endswith(('.', '!', '?', ':', bullet))
EndsWithMarker(text) ==
    text # <<>> /\ text[Len(text)] \in {".", "!", "?", ":", "bullet"}

\* Mutant of the continuation: the texts are joined without a space.
Join_NoSpace(buffer, text) == buffer \o text

\* stitched_text += f" {segment['text']}"
Join(buffer, text) == buffer \o <<" ">> \o text

\* {'text': stitched_text, 'type': current_type, 'page': current_page}
FlowingUnit(b) ==
    [text |-> b.stitched_text, type |-> b.current_type,
     page |-> b.current_page, offset |-> AbsentKey]

\* Mutant of the standalone unit: it is given the type of a paragraph.
StandaloneUnit_AsParagraph(segment) == [segment EXCEPT !.type = "paragraph"]

\* final_content.append(segment): the segment itself, 'offset' included.
StandaloneUnit(segment) == segment

StartBuffer(b, segment) ==
    [b EXCEPT !.stitched_text = segment.text,
              !.current_page = segment.page,
              !.current_type = segment.type,
              !.first_offsets = Append(@, segment.offset)]

Flushed(b) ==
    [b EXCEPT !.final_content = Append(@, FlowingUnit(b)),
              !.stitched_text = <<>>]

\* Mutant of the continuation: the buffer takes the page and the type of
\* the segment appended to it.
Continued_TakesPageAndType(b, segment) ==
    [b EXCEPT !.stitched_text = Join(@, segment.text),
              !.current_page = segment.page,
              !.current_type = segment.type]

\* Continue stitching the current paragraph: only the text changes.
Continued(b, segment) == [b EXCEPT !.stitched_text = Join(@, segment.text)]

\* One iteration of the loop over all_content.
StitchStep(b, segment) ==
    IF IsStandalone(segment)
    THEN LET flushed == IF b.stitched_text # <<>> THEN Flushed(b) ELSE b
         IN  [flushed EXCEPT
                 !.final_content = Append(@, StandaloneUnit(segment)),
                 !.first_offsets = Append(@, segment.offset)]
    ELSE IF b.stitched_text = <<>>
    THEN StartBuffer(b, segment)
    ELSE IF EndsWithMarker(b.stitched_text)
    THEN StartBuffer(Flushed(b), segment)
    ELSE Continued(b, segment)

\* After the loop: "if stitched_text: final_content.append(...)".
LastFlush(b) == IF b.stitched_text # <<>> THEN Flushed(b) ELSE b

RECURSIVE StitchFrom(_, _, _)
StitchFrom(b, segments, i) ==
    IF i > Len(segments) THEN b
    ELSE StitchFrom(StitchStep(b, segments[i]), segments, i + 1)

\* The whole of step 3 on a list of segments.
Stitch(segments) == LastFlush(StitchFrom(InitialBuffer, segments, 1)).final_content

InitParser ==
    /\ AlignIdle
    /\ MainIdle
    /\ EmbeddingIdle
    /\ EvaluationIdle
    /\ document \in Documents
    /\ parser_pc = "start"
    /\ parser_error = <<>>
    /\ all_content = <<>>
    /\ segment_index = 0
    /\ stitched_text = <<>>
    /\ current_page = 0
    /\ current_type = "paragraph"
    /\ final_content = <<>>
    /\ first_offsets = <<>>

\* process_document_json up to the sort: steps 1 and 2.
ExtractContent ==
    /\ parser_pc = "start"
    /\ IF document.file = "missing"
       THEN /\ parser_pc' = "raised"
            /\ parser_error' = <<"FileNotFoundError", "filepath">>
            /\ UNCHANGED <<all_content, segment_index>>
       ELSE IF document.missing_key # "none"
       THEN /\ parser_pc' = "raised"
            /\ parser_error' = <<"ValueError", document.missing_key>>
            /\ UNCHANGED <<all_content, segment_index>>
       ELSE IF OffsetKeyError(document.paragraphs)
       THEN /\ parser_pc' = "raised"
            /\ parser_error' = <<"KeyError", "offset">>
            /\ UNCHANGED <<all_content, segment_index>>
       ELSE /\ parser_pc' = "stitching"
            /\ all_content' =
                   SortByOffset(Extracted(document.paragraphs, document.tables,
                                          document.page_lookup,
                                          document.handwritten_offsets))
            /\ segment_index' = 1
            /\ UNCHANGED parser_error
    /\ UNCHANGED <<document, stitched_text, current_page, current_type,
                   final_content, first_offsets>>
    /\ UNCHANGED <<align_vars, main_vars, embedding_vars, evaluation_vars>>

Locals ==
    [final_content |-> final_content, first_offsets |-> first_offsets,
     stitched_text |-> stitched_text, current_page |-> current_page,
     current_type |-> current_type]

SetLocals(b) ==
    /\ final_content' = b.final_content
    /\ first_offsets' = b.first_offsets
    /\ stitched_text' = b.stitched_text
    /\ current_page' = b.current_page
    /\ current_type' = b.current_type

\* One iteration of the stitching loop.
StitchSegment ==
    /\ parser_pc = "stitching"
    /\ segment_index <= Len(all_content)
    /\ SetLocals(StitchStep(Locals, all_content[segment_index]))
    /\ segment_index' = segment_index + 1
    /\ UNCHANGED <<document, parser_pc, parser_error, all_content>>
    /\ UNCHANGED <<align_vars, main_vars, embedding_vars, evaluation_vars>>

\* The last flush, and "return final_content".
ReturnFinalContent ==
    /\ parser_pc = "stitching"
    /\ segment_index > Len(all_content)
    /\ SetLocals([LastFlush(Locals) EXCEPT !.stitched_text = stitched_text])
    /\ parser_pc' = "returned"
    /\ UNCHANGED <<document, parser_error, all_content, segment_index>>
    /\ UNCHANGED <<align_vars, main_vars, embedding_vars, evaluation_vars>>

NextParser ==
    \/ ExtractContent
    \/ StitchSegment
    \/ ReturnFinalContent

SpecParser == InitParser /\ [][NextParser]_vars

(* ---------------------------- properties ------------------------------- *)
NumEng == Len(english_content)
NumGer == Len(german_content)

AlignContentReturned == called = "align_content" /\ status = "returned"
AlignTocsReturned == called = "align_tocs" /\ status = "returned"

IsPair(r) == r.english # None /\ r.german # None
IsSourceOnly(r) == r.english # None /\ r.german = None
IsTargetOnly(r) == r.english = None /\ r.german # None

\* The positions of the returned list that hold a record of a given shape.
PairRecords == {k \in 1..Len(returned) : IsPair(returned[k])}
SourceOnlyRecords == {k \in 1..Len(returned) : IsSourceOnly(returned[k])}
TargetOnlyRecords == {k \in 1..Len(returned) : IsTargetOnly(returned[k])}

RecordsOfEnglish(i) == {k \in 1..Len(returned) : returned[k].english = i}
RecordsOfGerman(j) == {k \in 1..Len(returned) : returned[k].german = j}

Accepted(i, j) ==
    \E k \in PairRecords : returned[k].english = i /\ returned[k].german = j

\* blended[i][j] >= threshold and blended[i][j] = threshold, as rationals:
\* blended_matrix[i][j] / (WeightDen*ScoreDen*n*m) against threshold / ScoreDen.
BlendedDen == WeightDen * ScoreDen * NumEng * NumGer

ReachesThreshold(blended, i, j, threshold) ==
    blended[i][j] * ScoreDen >= threshold * BlendedDen

EqualsThreshold(blended, i, j, threshold) ==
    blended[i][j] * ScoreDen = threshold * BlendedDen

\* C1 (as stated): after align_content has returned, every unit of A is in
\* exactly one returned record and every unit of B is in exactly one returned
\* record, whatever the two sequences are.
C1_EveryUnitOnce_AnyInput ==
    AlignContentReturned =>
        /\ \A i \in 1..NumEng : Cardinality(RecordsOfEnglish(i)) = 1
        /\ \A j \in 1..NumGer : Cardinality(RecordsOfGerman(j)) = 1

\* C1 (amended): when both sequences are non-empty, every unit of A is in
\* exactly one returned record and every unit of B is in exactly one returned
\* record; when either sequence is empty the returned list is empty, so the
\* units of the other sequence are in no record.
C1_EveryUnitOnce ==
    AlignContentReturned =>
        IF english_content # <<>> /\ german_content # <<>>
        THEN /\ \A i \in 1..NumEng : Cardinality(RecordsOfEnglish(i)) = 1
             /\ \A j \in 1..NumGer : Cardinality(RecordsOfGerman(j)) = 1
        ELSE returned = <<>>

\* A call that returned a pair, a source-only and a target-only record.
C1_Witness ==
    /\ AlignContentReturned
    /\ PairRecords # {}
    /\ SourceOnlyRecords # {}
    /\ TargetOnlyRecords # {}

\* C2: under both strategies the accepted pairs are a one-to-one matching: no
\* source index and no target index is in two accepted pairs, and there are at
\* most min(|A|, |B|) accepted pairs.
C2_OneToOne ==
    (called # "none" /\ status = "returned") =>
        /\ \A k, l \in PairRecords :
              (returned[k].english = returned[l].english
                  \/ returned[k].german = returned[l].german) => k = l
        /\ Cardinality(PairRecords) <= Min(NumEng, NumGer)

\* Mutual-best-match accepted min(|A|, |B|) = 2 pairs.
C2_Witness ==
    /\ AlignContentReturned
    /\ NumEng = 2
    /\ NumGer = 2
    /\ Cardinality(PairRecords) = 2

\* j is the maximum of row i, the lowest such index on ties.
IsBestOfRow(blended, i, j) ==
    /\ \A l \in 1..NumGer : blended[i][l] <= blended[i][j]
    /\ \A l \in 1..NumGer : blended[i][l] = blended[i][j] => j <= l

\* i is the maximum of column j, the lowest such index on ties.
IsBestOfColumn(blended, i, j) ==
    /\ \A l \in 1..NumEng : blended[l][j] <= blended[i][j]
    /\ \A l \in 1..NumEng : blended[l][j] = blended[i][j] => i <= l

\* C3: under mutual-best-match the pair (i, j) is accepted if and only if j is
\* the maximum of row i (lowest j on ties), i is the maximum of column j
\* (lowest i on ties) and blended[i][j] >= threshold.
C3_MutualBestIff ==
    (AlignContentReturned /\ solver_ran) =>
        \A i \in 1..NumEng : \A j \in 1..NumGer :
            Accepted(i, j) <=>
                /\ IsBestOfRow(blended_matrix, i, j)
                /\ IsBestOfColumn(blended_matrix, i, j)
                /\ ReachesThreshold(blended_matrix, i, j, SIMILARITY_THRESHOLD)

\* An accepted pair whose blended score equals the threshold and whose row
\* holds the same score further right.
C3_Witness ==
    /\ AlignContentReturned
    /\ \E i \in 1..NumEng : \E j \in 1..NumGer :
          /\ Accepted(i, j)
          /\ EqualsThreshold(blended_matrix, i, j, SIMILARITY_THRESHOLD)
          /\ \E l \in (j + 1)..NumGer :
                blended_matrix[i][l] = blended_matrix[i][j]

\* C4: every returned record has a source or a target, and a record with only
\* one of them carries score 0.0.
C4_RecordShape ==
    AlignContentReturned =>
        \A k \in 1..Len(returned) :
            /\ returned[k].english # None \/ returned[k].german # None
            /\ ~IsPair(returned[k]) => returned[k].similarity = NO_SIMILARITY

\* A call that returned one-sided records of both kinds next to a pair with a
\* score other than 0.0.
C4_Witness ==
    /\ AlignContentReturned
    /\ SourceOnlyRecords # {}
    /\ TargetOnlyRecords # {}
    /\ \E k \in PairRecords : returned[k].similarity # NO_SIMILARITY

\* The blended matrix of the two lists and their similarity, as align_content
\* computes it; align_tocs computes none.
BlendedOfInputs ==
    BlendedMatrix(semantic_matrix,
                  _calculate_type_matrix(english_content, german_content),
                  _calculate_proximity_matrix(NumEng, NumGer),
                  NumEng, NumGer)

\* The score of every accepted pair is semantic[i][j].
ReportsSemanticScore ==
    \A k \in PairRecords :
        returned[k].similarity =
            semantic_matrix[returned[k].english][returned[k].german]

\* C5: under both strategies the score stored with an accepted pair is
\* semantic[i][j], and the pair was accepted by a test of blended[i][j]
\* against the threshold: a candidate pair of mutual-best-match, or a
\* tentative pair of the assignment, is accepted exactly when its blended
\* score reaches the threshold.
C5_SemanticReportedBlendedTested ==
    /\ (AlignContentReturned /\ solver_ran) =>
          /\ ReportsSemanticScore
          /\ \A i \in 1..NumEng : \A j \in 1..NumGer :
                (IsBestOfRow(blended_matrix, i, j)
                    /\ IsBestOfColumn(blended_matrix, i, j)) =>
                (Accepted(i, j) <=>
                    ReachesThreshold(blended_matrix, i, j, SIMILARITY_THRESHOLD))
    /\ (AlignTocsReturned /\ solver_ran) =>
          /\ ReportsSemanticScore
          /\ \A k \in 1..Len(assignment) :
                Accepted(assignment[k][1], assignment[k][2]) <=>
                    ReachesThreshold(BlendedOfInputs, assignment[k][1],
                                     assignment[k][2], SIMILARITY_THRESHOLD)

\* The production order of a record: accepted pairs by source index, then
\* source-only records by source index, then target-only records by target
\* index.
ProductionRank(r) ==
    IF IsPair(r) THEN <<0, r.english>>
    ELSE IF IsSourceOnly(r) THEN <<1, r.english>>
    ELSE <<2, r.german>>

\* The page a record is ordered by, and whether it has one.
HasSource(r) == r.english # None
SourcePage(r) == english_content[r.english].page

\* C6: the returned list is in ascending page of the source unit; a record
\* without a source comes after every record with one; records with the same
\* key are in production order.
C6_Ordering ==
    AlignContentReturned =>
        \A k, l \in 1..Len(returned) : k < l =>
            LET a == returned[k]
                b == returned[l]
            IN  /\ HasSource(b) => (HasSource(a) /\ SourcePage(a) <= SourcePage(b))
                /\ ((HasSource(a) /\ HasSource(b) /\ SourcePage(a) = SourcePage(b))
                       \/ (~HasSource(a) /\ ~HasSource(b))) =>
                   KeyLess(ProductionRank(a), ProductionRank(b))

\* A returned list in which the sort moved a source-only record in front of
\* an accepted pair of a later page, and that ends with a target-only record.
C6_Witness ==
    /\ AlignContentReturned
    /\ \E k, l, h \in 1..Len(returned) :
          /\ k < l /\ l < h
          /\ IsSourceOnly(returned[k])
          /\ IsPair(returned[l])
          /\ SourcePage(returned[k]) < SourcePage(returned[l])
          /\ IsTargetOnly(returned[h])

\* The thresholds a run can be made with.
AnyThreshold == Thresholds \cup {TOC_THRESHOLD}

\* C7: for fixed score matrices, a run at a threshold that is not lower
\* accepts no more pairs: of two successive mutual-best-match runs the one
\* with the higher threshold has at most as many accepted pairs, and the
\* filter of the assignment keeps at most as many tentative pairs at the
\* higher of two thresholds.
C7_Monotone ==
    /\ [][(/\ AlignContentReturned /\ solver_ran
           /\ AlignContentReturned' /\ solver_ran'
           /\ SIMILARITY_THRESHOLD <= SIMILARITY_THRESHOLD')
          => Cardinality(PairRecords') <= Cardinality(PairRecords)]_vars
    /\ [][(/\ AlignContentReturned /\ solver_ran
           /\ AlignContentReturned' /\ solver_ran'
           /\ SIMILARITY_THRESHOLD >= SIMILARITY_THRESHOLD')
          => Cardinality(PairRecords') >= Cardinality(PairRecords)]_vars
    /\ [](AlignTocsReturned /\ solver_ran =>
            \A t1, t2 \in AnyThreshold : t1 <= t2 =>
                Len(AlignedSections(assignment, semantic_matrix, t2))
                    <= Len(AlignedSections(assignment, semantic_matrix, t1)))

\* A run at the lower threshold that accepted two pairs of which a run at the
\* higher threshold accepts fewer.
C7_Witness ==
    /\ AlignContentReturned
    /\ Cardinality(PairRecords) = 2
    /\ \E t \in Thresholds :
          /\ SIMILARITY_THRESHOLD < t
          /\ Cardinality({k \in PairRecords :
                ReachesThreshold(blended_matrix, returned[k].english,
                                 returned[k].german, t)}) < 2

\* C8: two successive runs of align_content on the same units, embeddings
\* and threshold return the same list of records in the same order.
C8_Deterministic ==
    [][(/\ AlignContentReturned /\ AlignContentReturned'
        /\ SIMILARITY_THRESHOLD' = SIMILARITY_THRESHOLD)
       => returned' = returned]_vars

\* A run that left two English units and a German unit unmatched.
C8_Witness ==
    /\ AlignContentReturned
    /\ Cardinality(SourceOnlyRecords) >= 2
    /\ TargetOnlyRecords # {}

\* C9: a call of either function with an empty sequence on either side
\* returns the empty list, raises nothing and does not run the matching; the
\* matching never runs on a matrix without rows or without columns.
C9_EmptyInput ==
    /\ (called # "none" /\ (english_content = <<>> \/ german_content = <<>>)) =>
          /\ status = "returned"
          /\ returned = <<>>
          /\ ~solver_ran
    /\ solver_ran => (NumEng > 0 /\ NumGer > 0)

\* align_content returned for an empty A and a non-empty B while the
\* credentials were missing.
C9_Witness ==
    /\ AlignContentReturned
    /\ english_content = <<>>
    /\ german_content # <<>>
    /\ ~credentials

\* Every blended score is below the threshold.
AllBelowThreshold ==
    \A i \in 1..NumEng : \A j \in 1..NumGer :
        ~ReachesThreshold(blended_matrix, i, j, SIMILARITY_THRESHOLD)

\* C10: when every blended score is below the threshold, align_content
\* returns without error, accepts no pair, and returns exactly |A|
\* source-only records and |B| target-only records.
C10_NoAcceptablePair ==
    (called = "align_content" /\ solver_ran /\ AllBelowThreshold) =>
        /\ status = "returned"
        /\ PairRecords = {}
        /\ Cardinality(SourceOnlyRecords) = NumEng
        /\ Cardinality(TargetOnlyRecords) = NumGer
        /\ Len(returned) = NumEng + NumGer

\* A run on two English and two German units with every score below the
\* threshold.
C10_Witness ==
    /\ called = "align_content"
    /\ solver_ran
    /\ AllBelowThreshold
    /\ NumEng = 2
    /\ NumGer = 2

\* C11: every call that main and compare_alignment_methods make to
\* align_content with an algorithm and a context_window argument ends without
\* an argument error and, given two non-empty lists and a client, reaches the
\* matching step.
C11_CallsReachSolver ==
    (caller # "none" /\ called = "align_content") =>
        /\ ~argument_error
        /\ (english_content # <<>> /\ german_content # <<>> /\ credentials)
               => solver_ran

C12_AssignmentFilteredByBlended ==
    (AlignTocsReturned /\ solver_ran) =>
        /\ Len(assignment) = Min(NumEng, NumGer)
        /\ \A k, l \in 1..Len(assignment) : k # l =>
               /\ assignment[k][1] # assignment[l][1]
               /\ assignment[k][2] # assignment[l][2]
        /\ \A k \in 1..Len(assignment) :
               LET i == assignment[k][1]
                   j == assignment[k][2]
               IN  /\ Accepted(i, j) <=>
                          ReachesThreshold(BlendedOfInputs, i, j,
                                           SIMILARITY_THRESHOLD)
                   /\ ~Accepted(i, j) =>
                          RecordsOfEnglish(i) = {} /\ RecordsOfGerman(j) = {}

\* The start of the batch that holds the text at position k (1-based).
BatchStartOf(k) == ((k - 1) \div BATCH_SIZE) * BATCH_SIZE

\* C17: batched embedding retrieval returns exactly one vector per text, in
\* input order: the zero vector for every text of a failed batch and the
\* vector the service returned for every other text; a failed batch does not
\* end the call, every batch was requested.
C17_FailedBatchesZeroed ==
    embeddings_pc = "returned" =>
        /\ Len(all_embeddings) = Len(texts)
        /\ batch_start >= Len(texts)
        /\ \A k \in 1..Len(texts) :
               all_embeddings[k] =
                   IF BatchStartOf(k) \in failed_batches
                   THEN ZeroEmbedding
                   ELSE ServiceEmbedding(texts[k])

\* A call on more than two batches returned after its second batch failed
\* and the batches around it succeeded.
C17_Witness ==
    /\ embeddings_pc = "returned"
    /\ Len(texts) > 2 * BATCH_SIZE
    /\ failed_batches = {BATCH_SIZE}

(* ------------------ properties of process_document_json ---------------- *)
ParserReturned == parser_pc = "returned"

NumUnits == Len(final_content)

Contains(text, character) == \E k \in 1..Len(text) : text[k] = character

\* The units whose text holds a given letter; a letter is in the text of one
\* segment of the file only.
UnitsWith(letter) ==
    {u \in 1..NumUnits : Contains(final_content[u].text, letter)}

\* A text that is not empty, has no space at either end and no two spaces
\* in a row: an empty text joined to another would leave such a trace.
CleanText(text) ==
    /\ text # <<>>
    /\ text[1] # " "
    /\ text[Len(text)] # " "
    /\ \A k \in 1..(Len(text) - 1) : ~(text[k] = " " /\ text[k + 1] = " ")

HasIgnoredRole(p) == p.role \in {"pageHeader", "pageFooter", "pageNumber"}

IsBlank(p) == \A k \in 1..Len(p.content) : p.content[k] = " "

\* The segments of the file that have a role that is not ignored and a text
\* that is not empty after trimming.
NumNonEmptySegments ==
    Cardinality({k \in 1..Len(document.paragraphs) :
                    /\ ~HasIgnoredRole(document.paragraphs[k])
                    /\ ~IsBlank(document.paragraphs[k])})
    + Cardinality({k \in 1..Len(document.tables) :
                    document.tables[k].markdown # <<>>})

\* C13: no returned unit holds text of a segment with an ignored role, and a
\* segment whose text is empty after trimming produces no unit and
\* contributes to none: there are at most as many units as segments with a
\* kept role and a non-empty text, and no unit text is empty or shows the
\* trace of an empty text joined to it.
C13_IgnoredAndEmptyDropped ==
    ParserReturned =>
        /\ \A k \in 1..Len(document.paragraphs) :
               HasIgnoredRole(document.paragraphs[k]) =>
                   UnitsWith(Letters[k]) = {}
        /\ \A u \in 1..NumUnits : CleanText(final_content[u].text)
        /\ NumUnits <= NumNonEmptySegments

\* A file with a page header, a blank paragraph and a third segment was
\* processed and gave a unit.
C13_Witness ==
    /\ ParserReturned
    /\ \E k \in 1..Len(document.paragraphs) :
           HasIgnoredRole(document.paragraphs[k])
    /\ \E k \in 1..Len(document.paragraphs) :
           /\ document.paragraphs[k].spans = "ok"
           /\ IsBlank(document.paragraphs[k])
    /\ NumUnits = 1

NonDecreasing(seq) == \A k \in 1..(Len(seq) - 1) : seq[k] <= seq[k + 1]

PagesFollowOffsets ==
    \A o1, o2 \in Offsets :
        o1 <= o2 => document.page_lookup[o1] <= document.page_lookup[o2]

\* C14: whatever the order of the paragraphs and tables in the file, the
\* offset of the first segment of each returned unit is non-decreasing along
\* the output, and so is the page of the units when the page of an offset
\* does not decrease with the offset.
C14_DocumentOrder ==
    ParserReturned =>
        /\ Len(first_offsets) = NumUnits
        /\ \A u \in 1..NumUnits :
               final_content[u].offset # AbsentKey =>
                   final_content[u].offset = first_offsets[u]
        /\ NonDecreasing(first_offsets)
        /\ PagesFollowOffsets =>
               NonDecreasing([u \in 1..NumUnits |-> final_content[u].page])

\* A file whose second paragraph lies before its first one, and a table
\* before both, gave three units on rising offsets.
C14_Witness ==
    /\ ParserReturned
    /\ PagesFollowOffsets
    /\ Len(document.paragraphs) = 2
    /\ Len(document.tables) = 1
    /\ document.paragraphs[2].offset < document.paragraphs[1].offset
    /\ document.tables[1].offset < document.paragraphs[2].offset
    /\ first_offsets = <<0, 1, 2>>

\* A unit as the claims read it: text, role and page.
UnitView(units) ==
    [u \in 1..Len(units) |->
        [text |-> units[u].text, type |-> units[u].type, page |-> units[u].page]]

\* C15: the stitching pass run on its own output, each unit taken as one
\* segment with its role and page, returns the same units: as many, with the
\* same texts, roles and pages.
C15_StitchIdempotent ==
    ParserReturned =>
        /\ final_content = Stitch(all_content)
        /\ UnitView(Stitch(final_content)) = UnitView(final_content)

\* The pass returned a structural unit and a unit stitched from two segments.
C15_Witness ==
    /\ ParserReturned
    /\ \E u \in 1..NumUnits : final_content[u].type = "paragraph"
                              /\ Contains(final_content[u].text, " ")
    /\ \E u \in 1..NumUnits : final_content[u].type \in STRUCTURAL_ROLES

LacksSpans(segment) == segment.spans \in {"missing", "no_offset"}

Malformed ==
    \/ document.missing_key # "none"
    \/ \E k \in 1..Len(document.paragraphs) : LacksSpans(document.paragraphs[k])
    \/ \E k \in 1..Len(document.tables) : LacksSpans(document.tables[k])

\* C16: a file in which a paragraph or a table lacks a required field (its
\* spans, or the offset of its span) is not processed: the call raises a
\* validation error (ValueError) that names the field, no segment is skipped
\* and no unit sequence is returned.
C16_MalformedFailsFast ==
    (parser_pc # "start" /\ document.file = "ok" /\ Malformed) =>
        /\ parser_pc = "raised"
        /\ parser_error[1] = "ValueError"

\* The step of the stitching loop, and the segment it is at.
StitchingStep ==
    parser_pc = "stitching" /\ segment_index' = segment_index + 1

CurrentSegment == all_content[segment_index]

BufferUnit ==
    [text |-> stitched_text, type |-> current_type, page |-> current_page,
     offset |-> AbsentKey]

ArrivesStandalone ==
    CurrentSegment.type \in {"title", "sectionHeading", "subheading", "table"}

C20_StandaloneFlushesBuffer ==
    /\ [][(StitchingStep /\ ArrivesStandalone) =>
             /\ stitched_text' = <<>>
             /\ final_content' =
                    (IF stitched_text # <<>>
                     THEN Append(final_content, BufferUnit)
                     ELSE final_content)
                    \o << [text |-> CurrentSegment.text,
                           type |-> CurrentSegment.type,
                           page |-> CurrentSegment.page,
                           offset |-> CurrentSegment.offset] >>]_vars
    /\ [](\A k \in 1..Len(all_content) :
             IsStandalone(all_content[k]) =>
                 /\ \A c \in 1..Len(all_content[k].text) :
                        ~Contains(stitched_text, all_content[k].text[c])
                 /\ \A u \in 1..NumUnits :
                        (\E c \in 1..Len(all_content[k].text) :
                            Contains(final_content[u].text, all_content[k].text[c]))
                        => final_content[u].text = all_content[k].text)

\* A title arrived while the buffer held a paragraph, and a table followed:
\* three units, every one with the text of one segment.
C20_Witness ==
    /\ ParserReturned
    /\ NumUnits = 3
    /\ final_content[1].type = "paragraph"
    /\ final_content[2].type = "title"
    /\ final_content[3].type = "table"

\* The offsets inside the span of a table of the file, and whether a
\* paragraph of the file starts inside such a span or a handwritten one.
InsideTable(o) ==
    \E k \in 1..Len(document.tables) :
        /\ document.tables[k].spans = "ok"
        /\ document.tables[k].offset <= o
        /\ o < document.tables[k].offset + document.tables[k].length

InsideNonText(p) ==
    p.spans = "ok" /\ (InsideTable(p.offset)
                         \/ p.offset \in document.handwritten_offsets)

RECURSIVE JoinedTexts(_)
JoinedTexts(items) ==
    IF items = <<>> THEN <<>>
    ELSE IF Len(items) = 1 THEN items[1].text
    ELSE JoinedTexts(SubSeq(items, 1, Len(items) - 1))
             \o <<" ">> \o items[Len(items)].text

\* The segments of the file that are kept: a role that is not ignored, spans
\* outside every table and handwritten span, a text that is not blank.
NumKeptSegments ==
    Cardinality({k \in 1..Len(document.paragraphs) :
                    /\ ~HasIgnoredRole(document.paragraphs[k])
                    /\ document.paragraphs[k].spans = "ok"
                    /\ ~InsideNonText(document.paragraphs[k])
                    /\ ~IsBlank(document.paragraphs[k])})
    + Cardinality({k \in 1..Len(document.tables) :
                    /\ document.tables[k].spans = "ok"
                    /\ document.tables[k].markdown # <<>>})

\* C22: the stitching pass loses, duplicates and reorders no text: the texts
\* of the returned units joined in order by single spaces are the texts of
\* the kept segments joined by single spaces in offset order, and a buffer
\* that is not empty at the end of the input is the last unit.
C22_NoTextLostOrReordered ==
    ParserReturned =>
        /\ Len(all_content) = NumKeptSegments
        /\ NonDecreasing([k \in 1..Len(all_content) |-> all_content[k].offset])
        /\ JoinedTexts(final_content) = JoinedTexts(all_content)
        /\ stitched_text # <<>> =>
               /\ NumUnits > 0
               /\ final_content[NumUnits].text = stitched_text

\* Three kept paragraphs, out of offset order in the file, gave one unit that
\* ends on a marker and a last unit from the buffer left at the end.
C22_Witness ==
    /\ ParserReturned
    /\ Len(document.paragraphs) = 3
    /\ Len(all_content) = 3
    /\ document.paragraphs[1].offset > document.paragraphs[3].offset
    /\ NumUnits = 2
    /\ final_content[2].text = stitched_text
    /\ Contains(final_content[1].text, " ")

AllIgnored ==
    /\ document.file = "ok"
    /\ document.missing_key = "none"
    /\ document.tables = <<>>
    /\ document.paragraphs # <<>>
    /\ \A k \in 1..Len(document.paragraphs) :
           HasIgnoredRole(document.paragraphs[k])

\* A file of one structural paragraph with a text, no table and no
\* handwritten span.
OneStructuralSegment ==
    /\ document.file = "ok"
    /\ document.missing_key = "none"
    /\ document.tables = <<>>
    /\ document.handwritten_offsets = {}
    /\ Len(document.paragraphs) = 1
    /\ document.paragraphs[1].role \in {"title", "sectionHeading", "subheading"}
    /\ document.paragraphs[1].spans = "ok"
    /\ ~IsBlank(document.paragraphs[1])

\* C23: a file in which every segment has an ignored role is processed
\* without error and gives no unit; a file that holds one structural segment
\* and nothing else is processed without error and gives exactly one unit,
\* that segment.
C23_EdgeInputs ==
    /\ AllIgnored =>
           /\ parser_pc # "raised"
           /\ ParserReturned => final_content = <<>>
    /\ OneStructuralSegment =>
           /\ parser_pc # "raised"
           /\ ParserReturned =>
                  /\ NumUnits = 1
                  /\ final_content[1].type = document.paragraphs[1].role
                  /\ final_content[1].text = Strip(document.paragraphs[1].content)

\* A file of one title was processed.
C23_Witness ==
    /\ ParserReturned
    /\ OneStructuralSegment
    /\ NumUnits = 1

\* The units that were produced by flushing the buffer: the code gives them
\* no 'offset'.
FlushedUnits == {u \in 1..NumUnits : final_content[u].offset = AbsentKey}

\* The segment that started the buffer of a flushed unit: the one whose text
\* the text of the unit begins with.
StartedBy(u) ==
    CHOOSE k \in 1..Len(all_content) :
        all_content[k].text[1] = final_content[u].text[1]

\* C24: a unit produced by flushing the buffer has a role that is neither
\* structural nor 'table', and has the page and the role of the segment that
\* started the buffer, whatever was appended to the buffer later.
C24_FlushedUnitKeepsStart ==
    \A u \in FlushedUnits :
        /\ final_content[u].type \notin {"title", "sectionHeading",
                                          "subheading", "table"}
        /\ final_content[u].type = all_content[StartedBy(u)].type
        /\ final_content[u].page = all_content[StartedBy(u)].page

\* A footnote on one page started a buffer, and a paragraph on another page
\* was appended to it.
C24_Witness ==
    /\ ParserReturned
    /\ NumUnits = 1
    /\ Len(all_content) = 2
    /\ all_content[1].type = "footnote"
    /\ all_content[2].type = "paragraph"
    /\ all_content[1].page # all_content[2].page
    /\ final_content[1].type = "footnote"

(* -------------------- properties of the score matrices ----------------- *)
\* The matrix has NumEng rows of NumGer entries.
HasDimensions(matrix) ==
    /\ Len(matrix) = NumEng
    /\ \A i \in 1..Len(matrix) : Len(matrix[i]) = NumGer

ProximityComputed ==
    proximity_matrix # <<>> \/ called = "_calculate_proximity_matrix"

\* C25: for 0-based i and j, proximity[i][j] = 1 - |i/|A| - j/|B||, every
\* entry lies in [0, 1], the normalized position of the only unit of a
\* sequence of length 1 is 0, and the call returns for every pair of lengths,
\* a length of 0 included.  Entries are numerators over |A|*|B|.
C25_Proximity ==
    called = "_calculate_proximity_matrix" =>
        /\ status = "returned"
        /\ HasDimensions(proximity_matrix)
        /\ \A i \in 1..NumEng : \A j \in 1..NumGer :
               /\ proximity_matrix[i][j] =
                      NumEng * NumGer
                          - Abs((i - 1) * NumGer - (j - 1) * NumEng)
               /\ proximity_matrix[i][j] >= 0
               /\ proximity_matrix[i][j] <= NumEng * NumGer
               /\ NumEng = 1 =>
                      proximity_matrix[i][j] = NumEng * (NumGer - (j - 1))
               /\ NumGer = 1 =>
                      proximity_matrix[i][j] = NumGer * (NumEng - (i - 1))

\* The proximity of one unit against three was computed: 1, 2/3 and 1/3.
C25_Witness ==
    /\ called = "_calculate_proximity_matrix"
    /\ NumEng = 1
    /\ NumGer = 3
    /\ proximity_matrix = << <<3, 2, 1>> >>

\* The kind of a unit, derived from its role.
KindOf(role) ==
    IF role \in {"title", "sectionHeading", "subheading"} THEN "structural"
    ELSE IF role = "table" THEN "standalone"
    ELSE "flowing"

\* C26: type[i][j] is the match bonus exactly when A[i] and B[j] are of the
\* same kind (both structural, both standalone or both flowing), and the
\* mismatch penalty otherwise.
C26_TypeScoreByKind ==
    called = "_calculate_type_matrix" =>
        /\ HasDimensions(type_matrix)
        /\ \A i \in 1..NumEng : \A j \in 1..NumGer :
               type_matrix[i][j] =
                   IF KindOf(english_content[i].type)
                          = KindOf(german_content[j].type)
                   THEN 1
                   ELSE 0 - 1

\* C27: in one align_content call the semantic, type, proximity and blended
\* matrices all have |A| rows of |B| entries, and blended[i][j] =
\* 0.7*semantic[i][j] + 0.2*type[i][j] + 0.1*proximity[i][j].  Both sides
\* are numerators over 10 * 100 * |A| * |B|.
C27_BlendedIsWeightedSum ==
    (AlignContentReturned /\ solver_ran) =>
        /\ HasDimensions(semantic_matrix)
        /\ HasDimensions(type_matrix)
        /\ HasDimensions(proximity_matrix)
        /\ HasDimensions(blended_matrix)
        /\ \A i \in 1..NumEng : \A j \in 1..NumGer :
               blended_matrix[i][j] =
                     7 * semantic_matrix[i][j] * NumEng * NumGer
                   + 2 * type_matrix[i][j] * 100 * NumEng * NumGer
                   + 1 * proximity_matrix[i][j] * 100

\* A call on two units against two computed four blended scores, one of
\* them with a proximity below 1.
C27_Witness ==
    /\ AlignContentReturned
    /\ solver_ran
    /\ NumEng = 2
    /\ NumGer = 2
    /\ proximity_matrix[1][2] < NumEng * NumGer
    /\ type_matrix[1][2] = TYPE_MISMATCH_PENALTY

(* ------------------- properties of the evaluation ---------------------- *)
\* The record a finding is about, read off its texts.
RecordOf(f) ==
    IF f.english_text # NoText THEN f.english_text[2] ELSE f.german_text[2]

\* The positions in findings of the findings about record k.
FindingsOf(k) == { n \in 1..Len(findings) : RecordOf(findings[n]) = k }

\* The calls of the agents for record k, in the order they were made.
CallsOf(k) == SelectSeq(agent_calls, LAMBDA c : c.pair = k)

EnglishOnly(k) ==
    aligned_pairs[k].english # None /\ aligned_pairs[k].german = None

GermanOnly(k) ==
    aligned_pairs[k].english = None /\ aligned_pairs[k].german # None

BothSides(k) ==
    aligned_pairs[k].english # None /\ aligned_pairs[k].german # None

\* C28: the findings are in record order; every source-only record the
\* loop has passed has exactly one finding, an 'Omission', every
\* target-only record exactly one, an 'Addition', a matched record at most
\* one; no agent is called for an unmatched record; the pipeline returns
\* only after the last record.
C28_OmissionsAndAdditions ==
    /\ \A n \in 1..Len(findings) : \A m \in 1..Len(findings) :
           n < m => RecordOf(findings[n]) < RecordOf(findings[m])
    /\ \A k \in 1..Len(aligned_pairs) :
           /\ k > pair_index + 1 => FindingsOf(k) = {}
           /\ (EnglishOnly(k) /\ k <= pair_index) =>
                  /\ Cardinality(FindingsOf(k)) = 1
                  /\ \A n \in FindingsOf(k) :
                         /\ findings[n].type = "Omission"
                         /\ findings[n].english_text = <<"english", k>>
           /\ (GermanOnly(k) /\ k <= pair_index) =>
                  /\ Cardinality(FindingsOf(k)) = 1
                  /\ \A n \in FindingsOf(k) :
                         /\ findings[n].type = "Addition"
                         /\ findings[n].german_text = <<"german", k>>
           /\ BothSides(k) => Cardinality(FindingsOf(k)) <= 1
           /\ ~BothSides(k) => CallsOf(k) = <<>>
    /\ evaluation_pc = "returned" => pair_index = Len(aligned_pairs)

\* The pipeline returned for an omission, a matched record with a confirmed
\* finding and an addition.
C28_Witness ==
    /\ evaluation_pc = "returned"
    /\ Len(aligned_pairs) = 3
    /\ EnglishOnly(1)
    /\ BothSides(2)
    /\ GermanOnly(3)
    /\ Len(findings) = 3
    /\ findings[1].type = "Omission"
    /\ findings[2].type = "Omission"
    /\ findings[3].type = "Addition"
    /\ Len(agent_calls) = 2

\* The agents called for record k, in order.
AgentsOf(k) == [n \in 1..Len(CallsOf(k)) |-> CallsOf(k)[n].agent]

\* The loop is past record k.
Evaluated(k) == k <= pair_index

\* C29: for a matched record the agents are called in the order auditor,
\* reviewer, context check; the reviewer only after the auditor answered an
\* error type other than 'None' and 'System Error'; the context check only
\* after the reviewer did not confirm, an exception or unparsable reply
\* being no confirmation; and the record has a finding exactly when the
\* reviewer confirmed (the finding has the auditor's error type) or the
\* context check answered 'no' (the finding is a 'Context Mismatch').
C29_AgentOrder ==
    \A k \in 1..Len(aligned_pairs) :
        BothSides(k) =>
            LET calls == CallsOf(k)
                confirmed == /\ Len(calls) >= 2
                             /\ calls[2].reply \in {"Confirm", "confirm"}
                mismatch == /\ Len(calls) = 3
                            /\ calls[3].reply \in {"No", "no"}
            IN  /\ AgentsOf(k) \in { <<>>, <<"agent1">>,
                                     <<"agent1", "agent2">>,
                                     <<"agent1", "agent2", "agent3">> }
                /\ Len(calls) >= 2 =>
                       calls[1].reply \in {"Mistranslation", "Omission"}
                /\ Len(calls) = 3 =>
                       calls[2].reply \notin {"Confirm", "confirm"}
                /\ (Len(calls) >= 2
                        /\ calls[2].reply \in {"no JSON", "exception"}
                        /\ evaluation_pc # "agent3") =>
                       Len(calls) = 3
                /\ \A n \in FindingsOf(k) :
                       \/ confirmed /\ findings[n].type = calls[1].reply
                       \/ mismatch /\ findings[n].type = "Context Mismatch"
                /\ Evaluated(k) =>
                       (FindingsOf(k) # {} <=> (confirmed \/ mismatch))

\* A record was audited, the reviewer's reply could not be read, and the
\* context check answered 'No': the finding is a context mismatch.
C29_Witness ==
    /\ evaluation_pc = "returned"
    /\ Len(aligned_pairs) >= 1
    /\ BothSides(1)
    /\ Len(CallsOf(1)) = 3
    /\ CallsOf(1)[2].reply = "no JSON"
    /\ CallsOf(1)[3].reply = "No"
    /\ Len(findings) >= 1
    /\ findings[1].type = "Context Mismatch"

(* ---------------------- properties of the client ----------------------- *)
\* The step is a call of align_content: the configuration and the
\* arguments stay as they are.
CallStep ==
    /\ called' = "align_content"
    /\ UNCHANGED <<credentials, english_content, german_content,
                   semantic_matrix>>

\* C30: at most one client is ever constructed; once _client is set every
\* call leaves it and constructs nothing; a call without credentials and
\* without a cached client raises and leaves _client None; a call with
\* credentials and without a cached client constructs one; a call with an
\* empty list constructs none.
C30_ClientConstructedOnce ==
    [][ /\ instances' <= 1
        /\ client # "None" => (client' = client /\ instances' = instances)
        /\ (CallStep /\ EmptyInput(english_content, german_content)) =>
               (client' = client /\ instances' = instances)
        /\ (CallStep /\ ~EmptyInput(english_content, german_content)
                     /\ client = "None" /\ ~credentials) =>
               (status' = "raised" /\ client' = "None"
                    /\ instances' = instances)
        /\ (CallStep /\ ~EmptyInput(english_content, german_content)
                     /\ client = "None" /\ credentials) =>
               (client' # "None" /\ instances' = instances + 1)
      ]_vars

\* A call returned pairs with the cached client while the configuration
\* has no credentials: the one client constructed earlier was used again.
C30_Witness ==
    /\ instances = 1
    /\ client # "None"
    /\ ~credentials
    /\ called = "align_content"
    /\ status = "returned"
    /\ solver_ran
====
